---- MODULE Spec2Model ----
(***************************************************************************)
(* Bottom-sheet modal of Ciebiada/rams: the page stack (useModalStack),    *)
(* the drag controller (useSheetDrag) and the open/close lifecycle (Modal).*)
(* One step of the model is one run of an event handler, effect, timer or  *)
(* frame callback: JavaScript runs each of them to completion.             *)
(*                                                                         *)
(* Lengths are pixels, times are milliseconds.  The fractions of the code  *)
(* (0.5, 0.25, 0.75 of the height, 0.5 px/ms) are compared by cross        *)
(* multiplication, which is exact on the integers used here.               *)
(* The title prop of the modal is held constant (InitialTitle).            *)
(***************************************************************************)
EXTENDS Integers, Sequences, FiniteSets

\* ------------------------------------------------------------ constants
MODAL_ANIMATION_DURATION == 400
MODAL_FAST_ANIMATION_DURATION == 100
\* window.innerHeight
ScreenHeight == 400
\* props.title || ""
InitialTitle == "Sheet"

\* ------------------------------------------------------------ bounds
\* the host opens the modal while fewer than MaxPending callbacks (close
\* timers and frame callbacks) are pending
MaxPending == 2
\* largest page-stack length explored
MaxDepth == 3
\* a gesture is followed for MaxTicks ticks of the clock; later events of the
\* gesture read the same Date.now()
MaxTicks == 1

\* one tick of the clock: a quarter-height in one tick is 0.5 px/ms
TickMs == 2 * MODAL_FAST_ANIMATION_DURATION
MaxTime == MaxTicks * TickMs
YStep == ScreenHeight \div 4
\* clientY lies in the viewport; the model places it on the quarter-heights
Ys == {k * YStep : k \in 0..4}
\* where a gesture starts; the code uses differences of coordinates only
StartYs == {2 * YStep}
\* a gesture that starts lower in the viewport can move further up
LowStartYs == {3 * YStep}
PageIds == {"a"}
\* the title argument of push when it is omitted (undefined)
NoTitle == "<undefined>"
Titles == {NoTitle, "", "A"}
Kinds == {"mouse", "touch"}

VARIABLES
  \* useModalStack
  pageStack, direction, currentTitle,
  \* useSheetDrag: signals
  modalPosition, dragOffsetY, isDragging, animationDuration,
  \* useSheetDrag: closure variables and window listeners
  startY, lastY, lastTime, prevY, prevTime, listeners,
  \* Modal
  open, isVisible, isClosing, scrollLocked, escListener,
  \* pending setTimeout continuations of closeWithAnimation, pending
  \* requestAnimationFrame callbacks
  timers, rafPending,
  \* Date.now(), counted from the latest handleDragStart: the code reads the
  \* clock in handleDragStart and handleDragMove only and uses differences
  \* of its readings only
  now,
  \* observation: the handler that ran last and what it called
  last

stackVars == <<pageStack, direction, currentTitle>>
sheetVars == <<modalPosition, dragOffsetY, isDragging, animationDuration>>
gestureVars == <<startY, lastY, lastTime, prevY, prevTime, listeners>>
modalVars == <<open, isVisible, isClosing, scrollLocked, escListener>>
schedVars == <<timers, rafPending>>
\* everything the program itself holds (the clock and `last` excluded)
progVars == <<stackVars, sheetVars, gestureVars, modalVars, schedVars>>
vars == <<progVars, now, last>>

\* const currentPosition = modalPosition() + dragOffsetY()
currentPosition == modalPosition + dragOffsetY

\* the position the style of modal-content is computed from
sheetPosition == modalPosition + dragOffsetY

\* op: the handler that ran; calls: how many times it called
\* closeWithAnimation; accepted: whether that call passed the guard; branch:
\* the branch handleDragEnd took; depth: the length of the page stack when
\* the handler began; pos: the combined position at which handleDragEnd
\* began; resets, onClose: how many times the handler called
\* modalStack.reset and props.onClose; dur, waited: the delay of the timer
\* that fired and the time it was pending; dt: the time between the two
\* samples handleDragEnd read; title: the title argument of push; fast:
\* whether the close that was accepted had been asked to be expedited;
\* partial: whether the handler let the renderer run between two of its
\* writes, on a state that is neither the one before nor the one after the
\* handler; idx: the place of the timer that fired among the pending ones,
\* oldest first
Ev(op, calls, accepted, branch) ==
  [op |-> op, calls |-> calls, accepted |-> accepted, branch |-> branch,
   depth |-> Len(pageStack),
   pos |-> IF op = "dragEnd" THEN currentPosition ELSE 0,
   dt |-> IF op = "dragEnd" THEN lastTime - prevTime ELSE 0,
   title |-> NoTitle, fast |-> FALSE, partial |-> FALSE, idx |-> 0,
   resets |-> 0, onClose |-> 0, dur |-> 0, waited |-> 0]

\* A signal written outside batch() and outside an effect re-runs the
\* computations that read it, the renderer included, before the setter
\* returns.  renders is the set of states the renderer is run on between
\* the writes of one handler; the handler exposes a partial update if one of
\* them is neither the state before nor the state after the handler.
Partial(renders, before, after) ==
  \E r \in renders : r # before /\ r # after

\* ------------------------------------------------------------ page stack
currentPage == pageStack[Len(pageStack)]

isRoot_Always == TRUE

\* pageStack().length === 1
isRoot == Len(pageStack) = 1

\* if (title): undefined and the empty string are falsy
Truthy(title) == title \notin {NoTitle, ""}

\* push writes direction, pageStack and currentTitle one setter after the
\* other, outside a batch
PushRenders(pageId, title) ==
  {<<pageStack, "forward", currentTitle>>}
    \cup (IF Truthy(title)
          THEN {<<Append(pageStack, pageId), "forward", currentTitle>>}
          ELSE {})

PushStack_KeepsDirection(pageId, title) ==
  /\ direction' = direction
  /\ pageStack' = Append(pageStack, pageId)
  /\ currentTitle' = IF Truthy(title) THEN title ELSE currentTitle

\* the three setters of push
PushStack(pageId, title) ==
  /\ direction' = "forward"
  /\ pageStack' = Append(pageStack, pageId)
  /\ currentTitle' = IF Truthy(title) THEN title ELSE currentTitle

PopStack_NoRootGuard ==
  /\ direction' = "backward"
  /\ pageStack' = SubSeq(pageStack, 1, Len(pageStack) - 1)
  /\ currentTitle' = InitialTitle

PopStack_GuardOnStackOnly ==
  /\ direction' = "backward"
  /\ pageStack' = IF Len(pageStack) > 1
                  THEN SubSeq(pageStack, 1, Len(pageStack) - 1)
                  ELSE pageStack
  /\ currentTitle' = InitialTitle

\* pop writes direction, pageStack and currentTitle one setter after the
\* other, outside a batch
PopRenders ==
  IF Len(pageStack) > 1
  THEN {<<pageStack, "backward", currentTitle>>,
        <<SubSeq(pageStack, 1, Len(pageStack) - 1), "backward", currentTitle>>}
  ELSE {}

PopStack_KeepsTitle ==
  IF Len(pageStack) > 1
  THEN /\ direction' = "backward"
       /\ pageStack' = SubSeq(pageStack, 1, Len(pageStack) - 1)
       /\ currentTitle' = currentTitle
  ELSE UNCHANGED stackVars

\* the body of pop
PopStack ==
  IF Len(pageStack) > 1
  THEN /\ direction' = "backward"
       /\ pageStack' = SubSeq(pageStack, 1, Len(pageStack) - 1)
       /\ currentTitle' = InitialTitle
  ELSE UNCHANGED stackVars

ResetStack_KeepDirection(title) ==
  /\ pageStack' = <<"root">>
  /\ direction' = direction
  /\ currentTitle' = title

\* the body of reset
ResetStack(title) ==
  /\ pageStack' = <<"root">>
  /\ direction' = "none"
  /\ currentTitle' = title

\* ------------------------------------------------------------ lifecycle
HalfOpen_Quarter == ScreenHeight \div 4

\* window.innerHeight * 0.5
HalfOpen == ScreenHeight \div 2

Duration_AlwaysStandard(fast) == MODAL_ANIMATION_DURATION

\* const duration = fast ? MODAL_FAST_ANIMATION_DURATION : MODAL_ANIMATION_DURATION
Duration(fast) ==
  IF fast THEN MODAL_FAST_ANIMATION_DURATION ELSE MODAL_ANIMATION_DURATION

CanClose_NoClosingGuard == isVisible

CanClose_NoVisibleGuard == ~isClosing

\* the guard of closeWithAnimation, negated
CanClose == ~isClosing /\ isVisible

CloseStart_KeepsKeydownListener(fast) ==
  /\ isClosing' = TRUE
  /\ animationDuration' = Duration(fast)
  /\ modalPosition' = ScreenHeight
  /\ dragOffsetY' = 0
  /\ open' = FALSE
  /\ escListener' = escListener
  /\ timers' = Append(timers, [dur |-> Duration(fast), elapsed |-> 0])
  /\ UNCHANGED <<isVisible, scrollLocked>>

\* closeWithAnimation past its guard, up to the await.  props.setOpen(false)
\* re-runs both effects: the first finds isClosing set and does nothing, the
\* cleanup of the second removes the keydown listener.
CloseStart(fast) ==
  /\ isClosing' = TRUE
  /\ animationDuration' = Duration(fast)
  /\ modalPosition' = ScreenHeight
  /\ dragOffsetY' = 0
  /\ open' = FALSE
  /\ escListener' = FALSE
  /\ timers' = Append(timers, [dur |-> Duration(fast), elapsed |-> 0])
  /\ UNCHANGED <<isVisible, scrollLocked>>

\* closeWithAnimation(fast), called from a handler that does nothing else
CloseWithAnimation(fast) ==
  IF CanClose
  THEN /\ CloseStart(fast)
       /\ UNCHANGED <<stackVars, isDragging, gestureVars, rafPending>>
  ELSE UNCHANGED progVars

\* the signals closeWithAnimation writes before the await
closeVars == <<isClosing, animationDuration, modalPosition, dragOffsetY, open>>

\* closeWithAnimation called from an event handler: setIsClosing(true) is
\* outside the batch, the batch follows, props.setOpen(false) comes last
CloseRenders(fast) ==
  IF CanClose
  THEN {<<TRUE, animationDuration, modalPosition, dragOffsetY, open>>,
        <<TRUE, Duration(fast), ScreenHeight, 0, open>>}
  ELSE {}

\* what a handler that called closeWithAnimation(fast) directly reports
CloseEv(op, called, fast) ==
  [Ev(op, IF called THEN 1 ELSE 0, called /\ CanClose, "") EXCEPT
     !.fast = called /\ CanClose /\ fast,
     !.partial = called /\ Partial(CloseRenders(fast), closeVars, closeVars')]

\* consumer code: close(fast) of the modal context
RequestClose(fast) ==
  /\ CloseWithAnimation(fast)
  /\ last' = CloseEv("requestClose", TRUE, fast)
  /\ UNCHANGED now

\* handleKeyDown with e.key === "Escape"; it runs while it is attached
Escape ==
  /\ escListener
  /\ IF open THEN CloseWithAnimation(FALSE) ELSE UNCHANGED progVars
  /\ last' = CloseEv("escape", open, FALSE)
  /\ UNCHANGED now

\* handleOverlayClick with e.target === e.currentTarget; the overlay is in
\* the document while isVisible
OverlayClick ==
  /\ isVisible
  /\ CloseWithAnimation(FALSE)
  /\ last' = CloseEv("overlayClick", TRUE, FALSE)
  /\ UNCHANGED now

SetOpenTrue_CancelsPendingClose ==
  /\ ~open
  /\ Len(timers) + rafPending < MaxPending
  /\ open' = TRUE
  /\ animationDuration' = MODAL_ANIMATION_DURATION
  /\ isVisible' = TRUE
  /\ isClosing' = FALSE
  /\ dragOffsetY' = 0
  /\ isDragging' = FALSE
  /\ modalPosition' = ScreenHeight
  /\ scrollLocked' = TRUE
  /\ rafPending' = rafPending + 1
  /\ escListener' = TRUE
  /\ timers' = <<>>
  /\ last' = Ev("open", 0, FALSE, "")
  /\ UNCHANGED <<stackVars, gestureVars, now>>

\* the host sets the open signal to true: the open branch of the first
\* effect, and the second effect attaches the keydown listener
SetOpenTrue ==
  /\ ~open
  /\ Len(timers) + rafPending < MaxPending
  /\ open' = TRUE
  /\ animationDuration' = MODAL_ANIMATION_DURATION
  /\ isVisible' = TRUE
  /\ isClosing' = FALSE
  /\ dragOffsetY' = 0
  /\ isDragging' = FALSE
  /\ modalPosition' = ScreenHeight
  /\ scrollLocked' = TRUE
  /\ rafPending' = rafPending + 1
  /\ escListener' = TRUE
  /\ last' = Ev("open", 0, FALSE, "")
  /\ UNCHANGED <<stackVars, gestureVars, timers, now>>

\* the host sets the open signal to false: the else branch of the first
\* effect, and the cleanup of the second effect
SetOpenFalse ==
  /\ open
  /\ IF CanClose
     THEN /\ CloseStart(FALSE)
          /\ UNCHANGED <<stackVars, isDragging, gestureVars, rafPending>>
     ELSE /\ open' = FALSE
          /\ escListener' = FALSE
          /\ UNCHANGED <<stackVars, sheetVars, gestureVars, isVisible,
                         isClosing, scrollLocked, schedVars>>
  /\ last' = Ev("openFalse", IF CanClose THEN 1 ELSE 0, CanClose, "")
  /\ UNCHANGED now

\* the requestAnimationFrame callback of the open branch
Raf ==
  /\ rafPending > 0
  /\ rafPending' = rafPending - 1
  /\ modalPosition' = HalfOpen
  /\ last' = Ev("raf", 0, FALSE, "")
  /\ UNCHANGED <<stackVars, dragOffsetY, isDragging, animationDuration,
                 gestureVars, modalVars, timers, now>>

TimerDue_Immediately(t) == t.elapsed >= 0

\* a timer of closeWithAnimation may fire once its delay has elapsed
TimerDue(t) == t.elapsed >= t.dur

RemoveAt(s, i) == SubSeq(s, 1, i - 1) \o SubSeq(s, i + 1, Len(s))

Teardown_KeepsScrollLocked(i) ==
  /\ i \in 1..Len(timers)
  /\ TimerDue(timers[i])
  /\ timers' = RemoveAt(timers, i)
  /\ ResetStack(InitialTitle)
  /\ isClosing' = FALSE
  /\ isVisible' = FALSE
  /\ scrollLocked' = scrollLocked
  /\ last' = [Ev("teardown", 0, FALSE, "") EXCEPT
                 !.resets = 1, !.onClose = 1, !.idx = i,
                 !.dur = timers[i].dur, !.waited = timers[i].elapsed]
  /\ UNCHANGED <<sheetVars, gestureVars, open, escListener, rafPending, now>>

\* closeWithAnimation after the await: reset, clear the flags, unlock the
\* scroll, notify onClose
Teardown(i) ==
  /\ i \in 1..Len(timers)
  /\ TimerDue(timers[i])
  /\ timers' = RemoveAt(timers, i)
  /\ ResetStack(InitialTitle)
  /\ isClosing' = FALSE
  /\ isVisible' = FALSE
  /\ scrollLocked' = FALSE
  /\ last' = [Ev("teardown", 0, FALSE, "") EXCEPT
                 !.resets = 1, !.onClose = 1, !.idx = i,
                 !.dur = timers[i].dur, !.waited = timers[i].elapsed]
  /\ UNCHANGED <<sheetVars, gestureVars, open, escListener, rafPending, now>>

\* any pending timer whose delay has elapsed may fire
CloseTimerFires == \E i \in 1..Len(timers) : Teardown(i)

\* ------------------------------------------------------------ time
Min(a, b) == IF a < b THEN a ELSE b

Elapse(t) == [t EXCEPT !.elapsed = Min(t.dur, t.elapsed + TickMs)]

\* TickMs elapse: for the pending timers, and for the clock of a gesture
\* in progress
Tick ==
  /\ \/ listeners # {} /\ now < MaxTime
     \/ \E i \in 1..Len(timers) : ~TimerDue(timers[i])
  /\ now' = IF listeners # {} THEN Min(MaxTime, now + TickMs) ELSE now
  /\ timers' = [i \in 1..Len(timers) |-> Elapse(timers[i])]
  /\ last' = Ev("tick", 0, FALSE, "")
  /\ UNCHANGED <<stackVars, sheetVars, gestureVars, modalVars, rafPending>>

\* ------------------------------------------------------------ drag
\* handleDragStart; the handle and the header are in the document while
\* isVisible.  kind is "touch" for a TouchEvent and "mouse" for a MouseEvent
HandleDragStart(kind, y) ==
  /\ isVisible
  /\ isDragging' = TRUE
  /\ now' = 0
  /\ lastTime' = now'
  /\ prevTime' = now'
  /\ startY' = y
  /\ lastY' = y
  /\ prevY' = y
  /\ listeners' = listeners \cup {kind}
  /\ last' = Ev("dragStart", 0, FALSE, "")
  /\ UNCHANGED <<stackVars, modalPosition, dragOffsetY, animationDuration,
                 modalVars, schedVars>>

SampleAdvances_OrEqual == now >= lastTime

\* if (now > lastTime): a move is retained as a sample only if the clock has
\* advanced since the last retained one
SampleAdvances == now > lastTime

\* handleDragMove; it runs while the window listener of its kind is attached
HandleDragMove(kind, clientY) ==
  /\ kind \in listeners
  /\ IF ~isDragging
     THEN UNCHANGED <<dragOffsetY, lastY, lastTime, prevY, prevTime>>
     ELSE LET deltaY == clientY - startY
              potentialPosition == modalPosition + deltaY
          IN  /\ IF SampleAdvances
                 THEN /\ prevY' = lastY
                      /\ prevTime' = lastTime
                      /\ lastY' = clientY
                      /\ lastTime' = now
                 ELSE UNCHANGED <<lastY, lastTime, prevY, prevTime>>
              /\ dragOffsetY' =
                   IF potentialPosition < 0 THEN -modalPosition ELSE deltaY
  /\ last' = Ev("dragMove", 0, FALSE, "")
  /\ UNCHANGED <<stackVars, modalPosition, isDragging, animationDuration,
                 startY, listeners, modalVars, schedVars, now>>

\* velocity = dt > 0 ? (lastY - prevY) / dt : 0, compared with 0.5 and -0.5
isFlickDown == lastTime - prevTime > 0 /\ 2 * (lastY - prevY) > lastTime - prevTime
isFlickUp_Never == FALSE

isFlickUp == lastTime - prevTime > 0 /\ 2 * (lastY - prevY) < -(lastTime - prevTime)

BeyondDismiss_Inclusive == 4 * currentPosition >= 3 * ScreenHeight

\* currentPosition > screenHeight * 0.75, currentPosition < screenHeight * 0.25
BeyondDismiss == 4 * currentPosition > 3 * ScreenHeight
BelowFullScreen == 4 * currentPosition < ScreenHeight

DragBranch_FlickDownAlwaysCloses ==
  CASE isFlickDown -> "flickDownClose"
    [] ~isFlickDown /\ isFlickUp -> "flickUp"
    [] ~isFlickDown /\ ~isFlickUp /\ BeyondDismiss -> "slowDismiss"
    [] ~isFlickDown /\ ~isFlickUp /\ ~BeyondDismiss /\ BelowFullScreen -> "slowExpand"
    [] OTHER -> "slowHalf"

DragBranch_PositionFirst ==
  CASE BeyondDismiss -> "slowDismiss"
    [] ~BeyondDismiss /\ BelowFullScreen -> "slowExpand"
    [] ~BeyondDismiss /\ ~BelowFullScreen /\ isFlickDown /\ modalPosition = 0 ->
         "flickDownHalf"
    [] ~BeyondDismiss /\ ~BelowFullScreen /\ isFlickDown /\ modalPosition # 0 ->
         "flickDownClose"
    [] ~BeyondDismiss /\ ~BelowFullScreen /\ ~isFlickDown /\ isFlickUp -> "flickUp"
    [] OTHER -> "slowHalf"

\* the if-chain of handleDragEnd
DragBranch ==
  CASE isFlickDown /\ modalPosition = 0 -> "flickDownHalf"
    [] isFlickDown /\ modalPosition # 0 -> "flickDownClose"
    [] ~isFlickDown /\ isFlickUp -> "flickUp"
    [] ~isFlickDown /\ ~isFlickUp /\ BeyondDismiss -> "slowDismiss"
    [] ~isFlickDown /\ ~isFlickUp /\ ~BeyondDismiss /\ BelowFullScreen -> "slowExpand"
    [] OTHER -> "slowHalf"

\* onClose() called from handleDragEnd: closeWithAnimation() inside the batch
\* that has already set animationDuration; offsetIfIgnored is the dragOffsetY the
\* branch leaves when the call is guarded out
DragClose(offsetIfIgnored) ==
  IF CanClose
  THEN CloseStart(FALSE)
  ELSE /\ animationDuration' = MODAL_ANIMATION_DURATION
       /\ modalPosition' = modalPosition
       /\ dragOffsetY' = offsetIfIgnored
       /\ UNCHANGED <<modalVars, timers>>

\* the branches of handleDragEnd that settle at an anchor
DragSettle(position) ==
  /\ animationDuration' = MODAL_ANIMATION_DURATION
  /\ modalPosition' = position
  /\ dragOffsetY' = 0
  /\ UNCHANGED <<modalVars, timers>>

\* handleDragEnd leaves startY, lastY, lastTime, prevY and prevTime as they
\* are, and removes every listener: no handler reads the five, or the clock,
\* before the next handleDragStart has overwritten all of them.  The model
\* sets the dead values to 0 so that states differing only in them coincide.
ForgetSamples ==
  /\ now' = 0
  /\ startY' = 0
  /\ lastY' = 0
  /\ lastTime' = 0
  /\ prevY' = 0
  /\ prevTime' = 0

DetachListeners_OwnKindOnly(kind) == listeners \ {kind}

\* the four removeEventListener calls of handleDragEnd: the listeners that
\* are left after a release through a listener of the given kind
DetachListeners(kind) == {}

\* handleDragEnd; it runs while the window listener of its kind is attached
HandleDragEnd(kind) ==
  /\ kind \in listeners
  /\ listeners' = DetachListeners(kind)
  /\ isDragging' = FALSE
  /\ CASE DragBranch = "flickDownHalf" -> DragSettle(HalfOpen)
       [] DragBranch = "flickDownClose" -> DragClose(0)
       [] DragBranch = "flickUp" ->
            DragSettle(IF modalPosition > 0 THEN 0 ELSE modalPosition)
       [] DragBranch = "slowDismiss" -> DragClose(dragOffsetY)
       [] DragBranch = "slowExpand" -> DragSettle(0)
       [] OTHER -> DragSettle(HalfOpen)
  /\ last' = Ev("dragEnd",
                IF DragBranch \in {"flickDownClose", "slowDismiss"} THEN 1 ELSE 0,
                DragBranch \in {"flickDownClose", "slowDismiss"} /\ CanClose,
                DragBranch)
  /\ ForgetSamples
  /\ UNCHANGED <<stackVars, rafPending>>

\* ------------------------------------------------------------ navigation
\* consumer code: push(pageId, title) of the modal context; the children of
\* the modal are mounted while isVisible
Push(pageId, title) ==
  /\ isVisible
  /\ Len(pageStack) < MaxDepth
  /\ PushStack(pageId, title)
  /\ last' = [Ev("push", 0, FALSE, "") EXCEPT
                 !.title = title,
                 !.partial = Partial(PushRenders(pageId, title),
                                     stackVars, stackVars')]
  /\ UNCHANGED <<sheetVars, gestureVars, modalVars, schedVars, now>>

\* consumer code: pop() of the modal context
Pop ==
  /\ isVisible
  /\ PopStack
  /\ last' = [Ev("pop", 0, FALSE, "") EXCEPT
                 !.partial = Partial(PopRenders, stackVars, stackVars')]
  /\ UNCHANGED <<sheetVars, gestureVars, modalVars, schedVars, now>>

\* the header button: isRoot() ? closeWithAnimation() : pop()
HeaderButton ==
  /\ isVisible
  /\ IF isRoot
     THEN CloseWithAnimation(FALSE)
     ELSE /\ PopStack
          /\ UNCHANGED <<sheetVars, gestureVars, modalVars, schedVars>>
  /\ last' = IF isRoot
             THEN CloseEv("headerButton", TRUE, FALSE)
             ELSE [Ev("headerButton", 0, FALSE, "") EXCEPT
                     !.partial = Partial(PopRenders, stackVars, stackVars')]
  /\ UNCHANGED now

\* ------------------------------------------------------------ specification
Init ==
  /\ pageStack = <<"root">>
  /\ direction = "none"
  /\ currentTitle = InitialTitle
  /\ modalPosition = ScreenHeight
  /\ dragOffsetY = 0
  /\ isDragging = FALSE
  /\ animationDuration = MODAL_ANIMATION_DURATION
  /\ startY = 0
  /\ lastY = 0
  /\ lastTime = 0
  /\ prevY = 0
  /\ prevTime = 0
  /\ listeners = {}
  /\ open = FALSE
  /\ isVisible = FALSE
  /\ isClosing = FALSE
  /\ scrollLocked = FALSE
  /\ escListener = FALSE
  /\ timers = <<>>
  /\ rafPending = 0
  /\ now = 0
  /\ last = Ev("init", 0, FALSE, "")

Next ==
  \/ SetOpenTrue
  \/ SetOpenFalse
  \/ \E fast \in BOOLEAN : RequestClose(fast)
  \/ Escape
  \/ OverlayClick
  \/ HeaderButton
  \/ Raf
  \/ CloseTimerFires
  \/ Tick
  \/ \E kind \in Kinds, y \in StartYs \cup LowStartYs : HandleDragStart(kind, y)
  \/ \E kind \in Kinds, y \in Ys : HandleDragMove(kind, y)
  \/ \E kind \in Kinds : HandleDragEnd(kind)
  \/ \E pageId \in PageIds, title \in Titles : Push(pageId, title)
  \/ Pop

Spec == Init /\ [][Next]_vars

\* The page stack and the drag controller do not refer to each other: each
\* meets the rest of the program in closeWithAnimation and in the effects
\* only.  SpecNav is the modal without gestures, SpecDrag the modal without
\* navigation (the page stack stays at root) and with gestures that start
\* at mid-height.
NextNav ==
  \/ SetOpenTrue
  \/ SetOpenFalse
  \/ \E fast \in BOOLEAN : RequestClose(fast)
  \/ Escape
  \/ OverlayClick
  \/ HeaderButton
  \/ Raf
  \/ CloseTimerFires
  \/ Tick
  \/ \E pageId \in PageIds, title \in Titles : Push(pageId, title)
  \/ Pop

SpecNav == Init /\ [][NextNav]_vars

NextDrag ==
  \/ SetOpenTrue
  \/ SetOpenFalse
  \/ \E fast \in BOOLEAN : RequestClose(fast)
  \/ Escape
  \/ OverlayClick
  \/ Raf
  \/ CloseTimerFires
  \/ Tick
  \/ \E kind \in Kinds, y \in StartYs : HandleDragStart(kind, y)
  \/ \E kind \in Kinds, y \in Ys : HandleDragMove(kind, y)
  \/ \E kind \in Kinds : HandleDragEnd(kind)

SpecDrag == Init /\ [][NextDrag]_vars

\* the modal without navigation, with gestures that start at three quarters
\* of the height: the upward travel of such a gesture exceeds half the height
NextDragLow ==
  \/ SetOpenTrue
  \/ SetOpenFalse
  \/ \E fast \in BOOLEAN : RequestClose(fast)
  \/ Escape
  \/ OverlayClick
  \/ Raf
  \/ CloseTimerFires
  \/ Tick
  \/ \E kind \in Kinds, y \in LowStartYs : HandleDragStart(kind, y)
  \/ \E kind \in Kinds, y \in Ys : HandleDragMove(kind, y)
  \/ \E kind \in Kinds : HandleDragEnd(kind)

SpecDragLow == Init /\ [][NextDragLow]_vars

\* Time passes, and the event loop runs every timer whose delay has elapsed.
Fairness ==
  /\ WF_vars(Tick)
  /\ \A i \in 1..MaxPending : WF_vars(Teardown(i))

SpecNavLive == SpecNav /\ Fairness

SpecDragLive == SpecDrag /\ Fairness

\* ------------------------------------------------------------ properties
\* `last` describes the handler whose run produced the current state, so a
\* state predicate over `last` and the program state speaks of the state right
\* after that handler, and an action formula over last' speaks of its step.

DirectCloseOps == {"requestClose", "escape", "overlayClick"}

\* C1: a close trigger that arrives while a close is in flight (isClosing) or
\* while the sheet is not visible changes no state and schedules nothing: a
\* direct trigger (requestClose, Escape, overlay click) leaves the whole
\* program state as it is, the open request going false changes nothing but
\* the request itself and its keydown listener, a drag dismiss changes
\* nothing of the lifecycle, the page stack or the schedule; a close call
\* right after an accepted one is not accepted; an accepted close schedules
\* exactly one timer, and a timer that fires calls onClose exactly once, which
\* nothing else does.
C1_CloseIsIdempotent ==
  [][ /\ (last'.op \in DirectCloseOps /\ (isClosing \/ ~isVisible))
           => UNCHANGED progVars
      /\ (last'.op = "openFalse" /\ (isClosing \/ ~isVisible))
           => UNCHANGED <<stackVars, sheetVars, gestureVars, isVisible,
                          isClosing, scrollLocked, schedVars>>
      /\ (last'.op = "dragEnd" /\ last'.calls = 1 /\ (isClosing \/ ~isVisible))
           => UNCHANGED <<stackVars, modalVars, schedVars, modalPosition>>
      /\ (last.accepted /\ last'.calls = 1)
           => ~last'.accepted /\ timers' = timers
      /\ last'.accepted => Len(timers') = Len(timers) + 1
      /\ last'.op = "teardown"
           => last'.onClose = 1 /\ Len(timers') = Len(timers) - 1
      /\ last'.op # "teardown"
           => last'.onClose = 0 /\ Len(timers') >= Len(timers)
    ]_vars

\* a close call has just been ignored while the one close is in flight
C1_Witness ==
  /\ last.op = "requestClose"
  /\ ~last.accepted
  /\ isClosing
  /\ Len(timers) = 1

\* C2: right after handleDragEnd, whatever the lifecycle state at release and
\* whichever branch was taken, isDragging is false and dragOffsetY is 0.
C2_DragEndClearsGesture ==
  last.op = "dragEnd" => ~isDragging /\ dragOffsetY = 0

\* C3: the page stack is never empty and its first element is "root".
C3_StackRooted ==
  Len(pageStack) >= 1 /\ pageStack[1] = "root"

\* a pop has just brought a deeper stack back to root
C3_Witness ==
  last.op = "pop" /\ last.depth = 2 /\ pageStack = <<"root">>

\* C4: the step in which the open request becomes true leaves the sheet
\* visible at modalPosition = ScreenHeight with no offset, not dragging, not
\* closing, the standard duration and the scroll locked; the frame callback
\* of an opening that no close has followed (the open request is still true)
\* moves modalPosition to the half-open anchor with the scroll still locked.
C4_OpeningSequence ==
  [][ /\ last'.op = "open"
           => /\ modalPosition' = ScreenHeight
              /\ isVisible'
              /\ ~isClosing'
              /\ dragOffsetY' = 0
              /\ ~isDragging'
              /\ animationDuration' = MODAL_ANIMATION_DURATION
              /\ scrollLocked'
      /\ (last'.op = "raf" /\ open)
           => /\ modalPosition' = HalfOpen
              /\ scrollLocked'
    ]_vars

\* C5: every time the open request becomes true the sheet is in the state of
\* the first open of a fresh instance: modalPosition = ScreenHeight, no
\* offset, not dragging, the standard duration, the page stack at root with
\* no direction and the initial title.
C5_OpenIsFresh ==
  last.op = "open"
    => /\ modalPosition = ScreenHeight
       /\ dragOffsetY = 0
       /\ ~isDragging
       /\ animationDuration = MODAL_ANIMATION_DURATION
       /\ pageStack = <<"root">>
       /\ direction = "none"
       /\ currentTitle = InitialTitle

\* the release velocity of the code, compared with the flick threshold
ReleasedFlickDown ==
  lastTime > prevTime /\ 2 * (lastY - prevY) > lastTime - prevTime
ReleasedFlickUp ==
  lastTime > prevTime /\ 2 * (prevY - lastY) > lastTime - prevTime

\* C6: handleDragEnd released with a velocity above 0.5 px/ms: at
\* modalPosition 0 the sheet settles at the half-open anchor and the close
\* callback is not called (no timer is scheduled, isClosing is unchanged);
\* at modalPosition > 0 the close callback is called exactly once and the
\* drag controller itself does not move modalPosition (it is ScreenHeight if
\* the close was accepted and unchanged if it was not).
C6_FlickDown ==
  [][ (last'.op = "dragEnd" /\ ReleasedFlickDown)
        => IF modalPosition = 0
           THEN /\ modalPosition' = HalfOpen
                /\ last'.calls = 0
                /\ timers' = timers
                /\ isClosing' = isClosing
           ELSE /\ last'.calls = 1
                /\ modalPosition' =
                     IF ~isClosing /\ isVisible THEN ScreenHeight
                                                ELSE modalPosition
    ]_vars

\* a flick down on the fully expanded sheet has settled it at the half-open
\* anchor
C6_Witness ==
  /\ last.op = "dragEnd"
  /\ last.branch = "flickDownHalf"
  /\ modalPosition = HalfOpen
  /\ ~isClosing

\* C7: handleDragEnd released with a velocity of at most 0.5 px/ms either
\* way decides by p = modalPosition + dragOffsetY alone: p > 0.75 *
\* ScreenHeight calls the close callback, p < 0.25 * ScreenHeight sets
\* modalPosition to 0, every other p (the two thresholds included) sets it to
\* the half-open anchor.
C7_SlowRelease ==
  [][ (last'.op = "dragEnd" /\ ~ReleasedFlickDown /\ ~ReleasedFlickUp)
        => LET p == modalPosition + dragOffsetY
           IN  CASE 4 * p > 3 * ScreenHeight -> last'.calls = 1
                 [] 4 * p < ScreenHeight ->
                      modalPosition' = 0 /\ last'.calls = 0
                 [] OTHER ->
                      modalPosition' = HalfOpen /\ last'.calls = 0
    ]_vars

\* a slow release exactly at 0.75 * ScreenHeight has settled at the half-open
\* anchor
C7_Witness ==
  /\ last.op = "dragEnd"
  /\ last.branch = "slowHalf"
  /\ 4 * last.pos = 3 * ScreenHeight
  /\ modalPosition = HalfOpen

\* C8: whenever onClose has just been called, the sheet is not visible and
\* not closing, the page stack is at root with no direction and the initial
\* title, the scroll is unlocked, and the timer had been pending for at least
\* its delay, which is one of the two close durations.
C8_OnCloseAfterTeardown ==
  last.onClose > 0
    => /\ ~isVisible
       /\ ~isClosing
       /\ pageStack = <<"root">>
       /\ direction = "none"
       /\ currentTitle = InitialTitle
       /\ ~scrollLocked
       /\ last.waited >= last.dur
       /\ last.dur \in {MODAL_ANIMATION_DURATION, MODAL_FAST_ANIMATION_DURATION}

\* onClose has just been called after a fast close of a sheet that showed a
\* deeper page
C8_Witness ==
  /\ last.onClose = 1
  /\ last.dur = MODAL_FAST_ANIMATION_DURATION
  /\ last.depth > 1

\* C9: a handler that has called reset leaves the stack at <<"root">>, the
\* direction none and the title it was given; reset is called once by every
\* teardown and by nothing else, every accepted close schedules one teardown
\* and every teardown consumes one.
C9_ResetOncePerClose ==
  [][ /\ last'.resets > 0
           => /\ pageStack' = <<"root">>
              /\ direction' = "none"
              /\ currentTitle' = InitialTitle
      /\ last'.resets = (IF last'.op = "teardown" THEN 1 ELSE 0)
      /\ Len(timers') =
           Len(timers) + (IF last'.accepted THEN 1 ELSE 0) - last'.resets
    ]_vars

\* reset has just been called on a stack of three pages
C9_Witness ==
  /\ last.resets = 1
  /\ last.depth = 3
  /\ pageStack = <<"root">>
  /\ direction = "none"

\* C10: pop on a stack of length 1 leaves the stack, the direction and the
\* title as they are.
C10_PopAtRoot ==
  [][ (last'.op = "pop" /\ Len(pageStack) = 1) => UNCHANGED stackVars ]_vars

\* pop has just been called at root of a sheet that has not navigated
C10_Witness ==
  /\ last.op = "pop"
  /\ last.depth = 1
  /\ direction = "none"
  /\ isVisible

\* C11: an open request that arrives while a close is in flight (its timer is
\* pending) is ignored: the step leaves isClosing, modalPosition and the
\* scroll lock as they are and schedules no frame callback, so no opening
\* transition starts before the teardown.
C11_OpenDuringCloseIgnored ==
  [][ (last'.op = "open" /\ Len(timers) > 0)
        => /\ isClosing' = isClosing
           /\ modalPosition' = modalPosition
           /\ scrollLocked' = scrollLocked
           /\ rafPending' = rafPending
    ]_vars

\* C12: at most one close timer is pending at any time, and isClosing is
\* true for as long as one is pending.
C12_SingleCloseTimer ==
  /\ Len(timers) <= 1
  /\ Len(timers) > 0 => isClosing

\* C13: in every reachable state modalPosition + dragOffsetY >= 0.
C13_NeverAboveFullyExpanded ==
  currentPosition >= 0

\* C14: whenever the sheet is rendered (isVisible) the position its style is
\* computed from lies within [0, ScreenHeight].
C14_DisplayedPositionInRange ==
  isVisible => sheetPosition >= 0 /\ sheetPosition <= ScreenHeight

C16_EscapeListener ==
  [][ /\ escListener <=> open
      /\ escListener' <=> open'
      /\ last'.op = "escape" => open
      /\ (last'.op = "escape" /\ last'.accepted)
           => /\ ~open'
              /\ ~escListener'
              /\ isClosing'
    ]_vars

\* an Escape key press has just started the close
C16_Witness ==
  /\ last.op = "escape"
  /\ last.accepted
  /\ isClosing
  /\ ~open
  /\ ~escListener

\* C17: the header button away from root pops the page stack and starts no
\* close (the sheet, the lifecycle and the schedule are unchanged); at root it
\* calls closeWithAnimation once and leaves the page stack, the direction and
\* the title as they are; the page stack changes only in a push, a pop, a
\* header press away from root, or a teardown.
C17_HeaderButton ==
  [][ /\ last'.op = "headerButton"
           => IF Len(pageStack) > 1
              THEN /\ pageStack' = SubSeq(pageStack, 1, Len(pageStack) - 1)
                   /\ direction' = "backward"
                   /\ last'.calls = 0
                   /\ UNCHANGED <<sheetVars, modalVars, schedVars>>
              ELSE /\ last'.calls = 1
                   /\ UNCHANGED stackVars
                   /\ (~isClosing /\ isVisible)
                        => /\ isClosing'
                           /\ ~open'
                           /\ Len(timers') = Len(timers) + 1
      /\ pageStack' # pageStack
           => \/ last'.op \in {"push", "pop", "teardown"}
              \/ last'.op = "headerButton" /\ Len(pageStack) > 1
    ]_vars

\* the header button has just popped the second page of an open sheet
C17_Witness ==
  /\ last.op = "headerButton"
  /\ last.depth = 2
  /\ pageStack = <<"root">>
  /\ direction = "backward"
  /\ open
  /\ ~isClosing

\* C18: push appends one page id to the stack, sets the direction to
\* forward, and sets the title to its title argument whenever one is given
\* (any string, the empty one included); without a title argument the title
\* is unchanged.
C18_Push ==
  [][ last'.op = "push"
        => /\ Len(pageStack') = Len(pageStack) + 1
           /\ SubSeq(pageStack', 1, Len(pageStack)) = pageStack
           /\ pageStack'[Len(pageStack')] \in PageIds
           /\ direction' = "forward"
           /\ currentTitle' = IF last'.title # NoTitle THEN last'.title
                                                      ELSE currentTitle
    ]_vars

\* C19: pop on a stack of more than one page removes exactly the last page,
\* sets the direction to backward and the title to the initial title,
\* whatever the depth.
C19_Pop ==
  [][ (last'.op = "pop" /\ Len(pageStack) > 1)
        => /\ pageStack' = SubSeq(pageStack, 1, Len(pageStack) - 1)
           /\ direction' = "backward"
           /\ currentTitle' = InitialTitle
    ]_vars

\* pop has just left a stack of three pages at its second page, which is not
\* root, with the initial title
C19_Witness ==
  /\ last.op = "pop"
  /\ last.depth = 3
  /\ Len(pageStack) = 2
  /\ currentPage # "root"
  /\ direction = "backward"
  /\ currentTitle = InitialTitle

\* C20: whenever the sheet is not visible, modalPosition = ScreenHeight.
C20_HiddenWhenClosed ==
  ~isVisible => modalPosition = ScreenHeight

\* C21: handleDragEnd released with a velocity below -0.5 px/ms sets
\* modalPosition to 0 if it was above 0 and leaves it as it is if it was 0;
\* either way dragOffsetY is 0 afterwards and the close callback is not
\* called: no timer is scheduled and the lifecycle is unchanged.
C21_FlickUp ==
  [][ (last'.op = "dragEnd" /\ ReleasedFlickUp)
        => /\ modalPosition' = (IF modalPosition > 0 THEN 0 ELSE modalPosition)
           /\ dragOffsetY' = 0
           /\ last'.calls = 0
           /\ UNCHANGED <<modalVars, timers>>
    ]_vars

\* a flick up has just expanded a sheet that was below the fully expanded
\* edge
C21_Witness ==
  /\ last.op = "dragEnd"
  /\ last.branch = "flickUp"
  /\ last.pos > 0
  /\ modalPosition = 0
  /\ dragOffsetY = 0

\* C22: at a release with |velocity| > 0.5 px/ms the branch handleDragEnd
\* takes is fixed by the direction of the flick and by modalPosition = 0
\* alone, wherever modalPosition + dragOffsetY lies: a flick up beyond
\* 0.75 * ScreenHeight expands and does not call the close callback, a flick
\* down above 0.25 * ScreenHeight calls it (or settles at the half-open
\* anchor, from modalPosition 0) and does not expand; at a velocity of exactly
\* 0.5 or -0.5 px/ms the branch is the one the position thresholds give.
C22_FlickOverridesPosition ==
  [][ last'.op = "dragEnd"
        => LET p == modalPosition + dragOffsetY
               dt == lastTime - prevTime
               dy == lastY - prevY
               byPosition == IF 4 * p > 3 * ScreenHeight THEN "slowDismiss"
                             ELSE IF 4 * p < ScreenHeight THEN "slowExpand"
                             ELSE "slowHalf"
           IN  /\ ReleasedFlickDown
                    => last'.branch = (IF modalPosition = 0 THEN "flickDownHalf"
                                                            ELSE "flickDownClose")
               /\ ReleasedFlickUp => last'.branch = "flickUp"
               /\ (ReleasedFlickUp /\ 4 * p > 3 * ScreenHeight)
                    => last'.calls = 0 /\ modalPosition' = 0
               /\ (ReleasedFlickDown /\ 4 * p < ScreenHeight)
                    => IF modalPosition = 0
                       THEN 2 * modalPosition' = ScreenHeight
                       ELSE last'.calls = 1 /\ modalPosition' # 0
               /\ (dt > 0 /\ (2 * dy = dt \/ 2 * dy = -dt))
                    => last'.branch = byPosition
    ]_vars

\* a flick up released beyond 0.75 * ScreenHeight has expanded the sheet
C22_Witness ==
  /\ last.op = "dragEnd"
  /\ last.branch = "flickUp"
  /\ 4 * last.pos > 3 * ScreenHeight
  /\ modalPosition = 0
  /\ ~isClosing

\* C23: the step in which a close trigger is accepted ends with isClosing
\* true, animationDuration 100 if the close was asked to be expedited and 400
\* otherwise, modalPosition = ScreenHeight, dragOffsetY = 0 and the open
\* request false, and it schedules one timer whose delay is that
\* animationDuration; a timer fires after it has been pending for its delay.
C23_CloseStart ==
  [][ /\ last'.accepted
           => /\ isVisible /\ ~isClosing
              /\ isClosing'
              /\ animationDuration' =
                   (IF last'.fast THEN MODAL_FAST_ANIMATION_DURATION
                                  ELSE MODAL_ANIMATION_DURATION)
              /\ modalPosition' = ScreenHeight
              /\ dragOffsetY' = 0
              /\ ~open'
              /\ timers' = Append(timers, [dur |-> animationDuration',
                                           elapsed |-> 0])
      /\ last'.fast => last'.op = "requestClose" /\ last'.accepted
      /\ last'.op = "teardown" => last'.waited >= last'.dur
    ]_vars

\* an expedited close has just been accepted
C23_Witness ==
  /\ last.op = "requestClose"
  /\ last.accepted
  /\ last.fast
  /\ isClosing
  /\ animationDuration = MODAL_FAST_ANIMATION_DURATION
  /\ Len(timers) = 1

\* C24: whenever a close is in flight (its timer is pending), whatever
\* happens in between, eventually the oldest pending timer fires and its
\* teardown leaves the sheet not visible and not closing with the page stack
\* reset, and calls onClose.  No step removes a pending timer but its own
\* teardown, and timers are queued behind the pending ones, so every close in
\* flight becomes the oldest one and completes.
C24_CloseCompletes ==
  /\ [][Len(timers') < Len(timers) => last'.op = "teardown"]_vars
  /\ (Len(timers) > 0)
       ~> (/\ last.op = "teardown"
           /\ last.idx = 1
           /\ last.onClose = 1
           /\ ~isVisible
           /\ ~isClosing
           /\ pageStack = <<"root">>)

\* the teardown of the older of two closes in flight has just run
C24_Witness ==
  /\ last.op = "teardown"
  /\ last.idx = 1
  /\ Len(timers) = 1
  /\ last.onClose = 1
  /\ ~isVisible

\* C25: right after any handleDragEnd no move or end listener of either kind
\* is attached, whichever kinds of event started gestures before it,
\* whichever kind released and whichever branch was taken; the listeners
\* attached are at most one pair per kind of event.
C25_ListenersDetached ==
  /\ listeners \subseteq Kinds
  /\ last.op = "dragEnd" => listeners = {}

\* a release has just dismissed the sheet and left no listener
C25_Witness ==
  /\ last.op = "dragEnd"
  /\ last.branch = "flickDownClose"
  /\ last.accepted
  /\ listeners = {}
  /\ ~isDragging

\* C26: no handler lets the renderer run on a state in which only some of
\* the writes of its transition have been made.
C26_AtomicTransitions ==
  ~last.partial

\* C27: in every reachable state modalPosition is 0, half of ScreenHeight or
\* ScreenHeight.
C27_Anchors ==
  \/ modalPosition = 0
  \/ 2 * modalPosition = ScreenHeight
  \/ modalPosition = ScreenHeight

\* a sheet released between two anchors has settled at the half-open one
C27_Witness ==
  /\ last.op = "dragEnd"
  /\ last.branch = "slowHalf"
  /\ 4 * last.pos \in {ScreenHeight, 3 * ScreenHeight}
  /\ 2 * modalPosition = ScreenHeight
  /\ dragOffsetY = 0

\* C28: in every reachable state the open request being true implies that
\* the sheet is visible.
C28_OpenImpliesVisible ==
  open => isVisible

\* C29: while isClosing is true modalPosition is ScreenHeight.
C29_ClosingStaysHidden ==
  isClosing => modalPosition = ScreenHeight

\* C30: in every reachable state isClosing implies isVisible.
C30_ClosingImpliesVisible ==
  isClosing => isVisible

\* a close is in flight on a visible sheet after a trigger that arrived
\* during it was turned away
C30_Witness ==
  /\ isClosing
  /\ isVisible
  /\ last.op = "overlayClick"
  /\ ~last.accepted
  /\ Len(timers) > 0

\* C31: in every state between two handlers the document scroll is locked
\* if and only if the sheet is visible.
C31_ScrollLockedIffVisible ==
  scrollLocked <=> isVisible

\* the teardown of a close that was in flight when the sheet was reopened has
\* just run: the sheet is not visible and the scroll is unlocked, with the
\* open request true
C31_Witness ==
  /\ last.op = "teardown"
  /\ open
  /\ ~isVisible
  /\ ~scrollLocked

\* C32: in every reachable state a drag move/end listener is attached if and
\* only if isDragging is true.
C32_ListenersIffDragging ==
  (listeners # {}) <=> isDragging

\* C33: whenever the page stack is at root the title is the initial title,
\* and whenever the direction is none the page stack is at root.
C33_RootTitle ==
  /\ Len(pageStack) = 1 => currentTitle = InitialTitle
  /\ direction = "none" => Len(pageStack) = 1

\* a pop has just brought a visible sheet back to root, where it shows the
\* initial title
C33_Witness ==
  /\ last.op = "pop"
  /\ last.depth = 2
  /\ Len(pageStack) = 1
  /\ direction = "backward"
  /\ currentTitle = InitialTitle
  /\ isVisible

====
